---- MODULE Spec2Model ----
(***************************************************************************)
(* CSV-to-graph ingestion of the yFiles ontology viewer.                   *)
(*                                                                         *)
(* The repository holds three revisions of the application's main module:  *)
(*   - the consolidating loader  updateGraph            (part_000:1-324)   *)
(*   - the upload-driven loader  loadAndProcessCSVFiles (part_000:326-609) *)
(*   - the chunked loader        loadGraphInChunks      (part_001)         *)
(* This module models the chunked loader (SpecChunk), the consolidating    *)
(* loader (SpecUpdate) and the upload-driven loader (SpecUpload) over one  *)
(* graph state, the apply-layout handler (SpecLayout, SpecLayoutChunked),  *)
(* the context menu of src/context-menu.ts (SpecMenu), the edge-label      *)
(* toggle (SpecToggle) and the level-of-detail listener (SpecLod).         *)
(*                                                                         *)
(* Library contracts the model relies on (yFiles, DOM):                    *)
(*   - a GraphBuilder resolves edge endpoints among the nodes it created   *)
(*     itself and creates no edge when an endpoint cannot be resolved;     *)
(*   - whether GraphBuilder.buildGraph empties the graph first differs     *)
(*     between library builds, so it is the choice builderClears;          *)
(*   - nodes created with the default style share one style instance       *)
(*     (INodeDefaults.shareStyleInstance), graph.setStyle gives a node its *)
(*     own instance;                                                       *)
(*   - graph.remove(node) also removes the edges at that node;             *)
(*   - HTMLProgressElement.max ignores values that are not positive.       *)
(***************************************************************************)
EXTENDS Integers, Sequences, FiniteSets, TLC

(***************************************************************************)
(* Bounds of the model and input domains                                   *)
(***************************************************************************)
\* rows of the nodes / edges file given to the chunked loader
MaxNodeRows == 3
MaxEdgeRows == 2
\* rows of the nodes / edges file given to the consolidating loader
MaxUpdateNodeRows == 2
MaxUpdateEdgeRows == 2

\* ids are opaque strings; "a-a" is an id that contains the key separator
NodeIds == {"a", "a-a"}
\* "Type1" is a key of getColorForType's table, "X" is not
NodeTypes == {"Type1", "X"}
\* "" stands for a missing or empty CSV cell (falsy in `x || fallback`)
Labels == {"", "Alpha"}
EdgeTypes == {"", "link"}
\* cluster ids EdgeBetweennessClustering may hand out
ClusterIds == {0, 1}

SeqsUpTo(S, n) == UNION {[1..k -> S] : k \in 0..n}

NodeRow == [id : NodeIds, type : NodeTypes, label : Labels]
EdgeRow == [source : NodeIds, target : NodeIds, edgeType : EdgeTypes]
\* the chunked revision binds no label text and its EdgeData has no edgeType
PlainNodeRow == [id : NodeIds, type : NodeTypes, label : {""}]
PlainEdgeRow == [source : NodeIds, target : NodeIds, edgeType : {""}]
\* node rows that differ in their ids only
OneTypeNodeRow == [id : NodeIds, type : {"X"}, label : {""}]

(***************************************************************************)
(* Generic helpers                                                         *)
(***************************************************************************)
Min(a, b) == IF a < b THEN a ELSE b

\* Math.ceil(n / c) for n >= 0, c > 0
CeilDiv(n, c) == IF n % c = 0 THEN n \div c ELSE (n \div c) + 1

\* faulty variant of Slice (takes the end index too); C9 must detect it
SliceInclusive(s, from, to) == SubSeq(s, from + 1, Min(to + 1, Len(s)))

\* Array.prototype.slice(from, to) with 0-based, end-exclusive, clamped indices
Slice(s, from, to) == SubSeq(s, from + 1, Min(to, Len(s)))

\* Array.prototype.filter is Sequences!SelectSeq

\* index of the first / last element satisfying a test, 0 if none
FirstIndex(s, test(_)) ==
  IF \E k \in 1..Len(s) : test(s[k])
  THEN CHOOSE k \in 1..Len(s) : test(s[k]) /\ \A j \in 1..(k - 1) : ~test(s[j])
  ELSE 0
LastIndex(s, test(_)) ==
  IF \E k \in 1..Len(s) : test(s[k])
  THEN CHOOSE k \in 1..Len(s) : test(s[k]) /\ \A j \in (k + 1)..Len(s) : ~test(s[j])
  ELSE 0

(***************************************************************************)
(* JavaScript Map: insertion-ordered entries, set() on an existing key     *)
(* replaces the value and keeps the position                               *)
(***************************************************************************)
MapHas(m, k) == \E j \in 1..Len(m) : m[j].key = k
MapGet(m, k) == m[CHOOSE j \in 1..Len(m) : m[j].key = k].value
MapSet(m, k, v) ==
  IF MapHas(m, k)
  THEN [j \in 1..Len(m) |-> IF m[j].key = k THEN [key |-> k, value |-> v] ELSE m[j]]
  ELSE Append(m, [key |-> k, value |-> v])
MapValues(m) == [j \in 1..Len(m) |-> m[j].value]

(***************************************************************************)
(* JavaScript object used as a dictionary: the entries above record the    *)
(* order of the assignments; enumeration (Object.entries, for..in) yields  *)
(* the keys that are array indices first, in ascending numeric order, then *)
(* the other string keys in the order of their assignment                  *)
(***************************************************************************)
\* the array index a key denotes, -1 for a key that is not an array index
ToArrayIndex(key) ==
  CASE key = "1" -> 1
    [] key = "2" -> 2
    [] OTHER -> -1

ObjectEntries(m) ==
  LET isIndex(e) == ToArrayIndex(e.key) >= 0
      isName(e) == ToArrayIndex(e.key) < 0
  IN SortSeq(SelectSeq(m, isIndex),
             LAMBDA x, y : ToArrayIndex(x.key) < ToArrayIndex(y.key))
     \o SelectSeq(m, isName)

\* existingLegend.remove() if there is one, then body.appendChild(legendContainer)
ReplacePanel(panels) == (IF panels > 0 THEN panels - 1 ELSE 0) + 1

(***************************************************************************)
(* State                                                                   *)
(***************************************************************************)
VARIABLES
  nodesData,        \* parsed rows of the nodes file
  edgesData,        \* parsed rows of the edges file
  chunkSize,        \* loadGraphInChunks' chunkSize (100 in the source, scaled down)
  builderClears,    \* TRUE iff this library build's buildGraph empties the graph first
  pc,               \* position of the load
  i,                \* loop counter of loadGraphInChunks
  totalChunks,
  uniqueNodesMap,   \* Map id -> row
  gNodes,           \* graph.nodes, in creation order
  gEdges,           \* graph.edges, in creation order
  nextHandle,       \* identity of the next graph node created
  defaultFill,      \* fill of the style instance shared by default-styled nodes
  progressDisplay,  \* progressContainer.style.display
  progressMax,      \* progressBar.max
  progressValue,    \* progressBar.value
  layoutCalls,      \* number of LayoutExecutor.start() calls
  projection,       \* graphComponent.projection
  legend,           \* items of the legend panel, in order
  typeColorMap,     \* updateGraph's typeColorMap
  consolidatedEdges,\* updateGraph's consolidatedEdges
  progressWrites,   \* history: values written to progressBar.value
  chunksSeen,       \* history: the node chunks processed so far
  prePrune,         \* history: node identities and edges when pruning started
  legendPanels,     \* number of legend containers in document.body
  \* upload-driven loader (part_000:326-609)
  uploadedNodes,    \* window.uploadedNodes
  uploadedEdges,    \* window.uploadedEdges
  typeColors,       \* the module-level typeColors object
  uploads,          \* the handleFileUpload calls made so far, each with its position
  alerts,           \* number of alert() calls
  fileReads,        \* number of files whose text was requested
  loneRequests,     \* history: handleFileUpload calls that ended with a file missing
  lastLoad,         \* history: arguments of the latest loadAndProcessCSVFiles call
  mutators,         \* history: which call changed the graph, in order, repeats merged
  \* apply-layout handler (part_000:222-265, part_001:343-385)
  layoutRuns,       \* the apply-layout clicks made so far, each with its position
  arrangement,      \* the arrangement last applied to the graph
  consoleErrors,    \* number of console.error calls
  unhandledRejections, \* rejected promises of handlers that nothing catches
  \* context menu (src/context-menu.ts)
  menuItems,        \* the labels of the context menu's items
  selection,        \* graphComponent.selection: the selected model items
  currentItem,      \* graphComponent.currentItem
  populated,        \* history: the latest populateContextMenu call and the parity of their number
  \* label toggles and level of detail (part_000:191-220, part_001:283-422)
  edgeLabelsVisible,\* the edge-label toggle's flag
  hiddenLabels,     \* history: the labels of every edge at the latest hideEdgeLabels, with its parity
  zoom,             \* graphComponent.zoom, in tenths
  labelTags         \* tag of every label in the graph, per node identity and per edge position

loaderVars == <<nodesData, edgesData, chunkSize, builderClears, pc, i, totalChunks,
                uniqueNodesMap, gNodes, gEdges, nextHandle, defaultFill,
                progressDisplay, progressMax, progressValue, layoutCalls, projection,
                legend, typeColorMap, consolidatedEdges, progressWrites, chunksSeen,
                prePrune, legendPanels>>
uploadVars == <<uploadedNodes, uploadedEdges, typeColors, uploads, alerts,
                fileReads, loneRequests, lastLoad, mutators>>
layoutVars == <<layoutRuns, arrangement, consoleErrors, unhandledRejections>>
menuVars == <<menuItems, selection, currentItem, populated>>
viewVars == <<edgeLabelsVisible, hiddenLabels, zoom, labelTags>>
\* what the loaders of part_001 and part_000:1-324 never touch
uiVars == <<uploadVars, layoutVars, menuVars, viewVars>>

vars == <<loaderVars, uploadVars, layoutVars, menuVars, viewVars>>

(***************************************************************************)
(* Palettes                                                                *)
(***************************************************************************)
\* colors / clusterColors: part_000:134, part_001:244, part_001:472
colors ==
  <<"#ff6f61", "#6b5b95", "#88b04b", "#f7cac9", "#92a8d1",
    "#955251", "#b565a7", "#009b77", "#dd4124", "#d65076">>

\* colors[k % colors.length] for a 0-based k
PaletteAt(k) == colors[(k % Len(colors)) + 1]

(***************************************************************************)
(* Graph helpers                                                           *)
(***************************************************************************)
Handles(nodes) == {nodes[k].h : k \in 1..Len(nodes)}

\* graph.degree(node): in-edges plus out-edges (a self-loop counts at both ends)
Degree(h, edges) ==
  Cardinality({k \in 1..Len(edges) : edges[k].src = h})
  + Cardinality({k \in 1..Len(edges) : edges[k].tgt = h})

\* the fill a node is drawn with
RenderedFill(n, shared) == IF n.shared THEN shared ELSE n.fill

(***************************************************************************)
(* Chunked loader (part_001)                                               *)
(***************************************************************************)
\* getColorForType: a fixed table, 'gray' for every other type
getColorForType(type) ==
  CASE type = "Type1" -> "red"
    [] type = "Type2" -> "blue"
    [] type = "Type3" -> "green"
    [] OTHER -> "gray"

\* nodeChunk.forEach(node => uniqueNodesMap.set(node.id, node))
RECURSIVE MergeChunk(_, _)
MergeChunk(m, chunk) ==
  IF chunk = <<>> THEN m
  ELSE MergeChunk(MapSet(m, Head(chunk).id, Head(chunk)), Tail(chunk))

\* edgesData.filter(edge => nodeChunk.some(node => node.id === edge.source || node.id === edge.target))
EdgeChunk(edges, nodeChunk) ==
  LET touches(e) == \E k \in 1..Len(nodeChunk) :
                      nodeChunk[k].id = e.source \/ nodeChunk[k].id = e.target
  IN SelectSeq(edges, touches)

\* createLabelBinding(data => nodeLabelsVisible ? data.label || '' : ''), with
\* nodeLabelsVisible = false
BoundLabelText(item) == ""

\* the nodes one GraphBuilder creates for its node source, in data order; the
\* nodeCreated listener writes the fill of the node's (shared) style
BuilderNodes(items, next) ==
  [k \in 1..Len(items) |->
     [h |-> next + k - 1, item |-> items[k], shared |-> TRUE, fill |-> "",
      labels |-> <<BoundLabelText(items[k])>>]]

\* the builder's node for a data id, 0 if it created none
ResolveNode(created, id) ==
  IF \E k \in 1..Len(created) : created[k].item.id = id
  THEN created[CHOOSE k \in 1..Len(created) : created[k].item.id = id].h
  ELSE 0

\* faulty variant of BuilderEdges (an edge for every data item, resolved or
\* not); C7 must detect it
BuilderEdgesUnchecked(items, created) ==
  [k \in 1..Len(items) |->
     [src |-> ResolveNode(created, items[k].source),
      tgt |-> ResolveNode(created, items[k].target),
      tag |-> items[k], labels |-> <<>>]]

\* the edges one GraphBuilder creates for its edge source: one per data item
\* whose source and target both resolve
BuilderEdges(items, created) ==
  LET resolves(e) == ResolveNode(created, e.source) # 0 /\ ResolveNode(created, e.target) # 0
      kept == SelectSeq(items, resolves)
  IN [k \in 1..Len(kept) |->
        [src |-> ResolveNode(created, kept[k].source),
         tgt |-> ResolveNode(created, kept[k].target),
         tag |-> kept[k], labels |-> <<>>]]

\* updateGraphChunk: a new GraphBuilder over the given data, then buildGraph()
updateGraphChunk(nodes, edges, next, shared, clears, nData, eData) ==
  LET created == BuilderNodes(nData, next)
      added == BuilderEdges(eData, created)
  IN [nodes |-> (IF clears THEN <<>> ELSE nodes) \o created,
      edges |-> (IF clears THEN <<>> ELSE edges) \o added,
      next |-> next + Len(nData),
      shared |-> IF nData = <<>> THEN shared
                 ELSE getColorForType(nData[Len(nData)].type)]

\* getTypeColorMap: first-seen types take the palette colors in order
RECURSIVE TypeColorFold(_, _, _)
TypeColorFold(m, colorIndex, rows) ==
  IF rows = <<>> THEN m
  ELSE IF MapHas(m, Head(rows).type)
       THEN TypeColorFold(m, colorIndex, Tail(rows))
       ELSE TypeColorFold(MapSet(m, Head(rows).type, PaletteAt(colorIndex)),
                          colorIndex + 1, Tail(rows))
getTypeColorMap(rows) == TypeColorFold(<<>>, 0, rows)

\* applyClustering, lines 231-254: every node gets a style of its own, filled
\* with the color of its cluster; clusters take the palette in `for in` order
\* of their keys (ascending for integer keys)
ClusterFill(cid, h) ==
  LET present == {cid[g] : g \in DOMAIN cid}
      rank == Cardinality({c \in present : c < cid[h]})
  IN PaletteAt(rank)
ApplyClusterStyles(nodes, cid) ==
  [k \in 1..Len(nodes) |->
     [nodes[k] EXCEPT !.shared = FALSE, !.fill = ClusterFill(cid, nodes[k].h)]]

\* faulty variant of nodesToRemove (counts outgoing edges only); C8 must detect it
nodesToRemoveNoOut(nodes, edges) ==
  {nodes[k].h : k \in {j \in 1..Len(nodes) :
                         \A e \in 1..Len(edges) : edges[e].src # nodes[j].h}}

\* graph.nodes.filter(node => graph.degree(node) === 0)
nodesToRemove(nodes, edges) ==
  {nodes[k].h : k \in {j \in 1..Len(nodes) : Degree(nodes[j].h, edges) = 0}}

\* nodesToRemove.forEach(node => graph.remove(node))
RemoveNodes(nodes, edges, gone) ==
  LET keepN(n) == n.h \notin gone
      keepE(e) == e.src \notin gone /\ e.tgt \notin gone
  IN [nodes |-> SelectSeq(nodes, keepN), edges |-> SelectSeq(edges, keepE)]

\* no upload, no apply-layout click, no context menu yet
UiBlank ==
  /\ uploadedNodes = [has |-> FALSE, rows |-> <<>>]
  /\ uploadedEdges = [has |-> FALSE, rows |-> <<>>]
  /\ typeColors = <<>> /\ uploads = <<>> /\ alerts = 0 /\ fileReads = 0
  /\ loneRequests = 0 /\ lastLoad = [nodes |-> <<>>, edges |-> <<>>]
  /\ mutators = <<>>
  /\ layoutRuns = <<>> /\ arrangement = "initial" /\ consoleErrors = 0
  /\ unhandledRejections = 0
  /\ menuItems = <<>> /\ selection = {} /\ currentItem = "null"
  /\ populated = [item |-> "null", before |-> {}, parity |-> FALSE]
  /\ hiddenLabels = <<>> /\ zoom = 10
  /\ labelTags = [nodes |-> <<>>, edges |-> <<>>]

ChunkInputs ==
  /\ nodesData \in SeqsUpTo(PlainNodeRow, MaxNodeRows)
  /\ edgesData \in SeqsUpTo(PlainEdgeRow, MaxEdgeRows)
  /\ chunkSize \in 1..(MaxNodeRows + 1)
  /\ builderClears \in BOOLEAN

Blank ==
  /\ i = 0 /\ totalChunks = 0 /\ uniqueNodesMap = <<>>
  /\ gNodes = <<>> /\ gEdges = <<>> /\ nextHandle = 1 /\ defaultFill = ""
  /\ progressDisplay = "none" /\ progressMax = 1 /\ progressValue = 0
  /\ layoutCalls = 0 /\ projection = "identity" /\ legend = <<>>
  /\ typeColorMap = <<>> /\ consolidatedEdges = <<>>
  /\ progressWrites = <<>> /\ chunksSeen = <<>>
  /\ prePrune = [nodes |-> {}, edges |-> <<>>]
  /\ legendPanels = 0
  /\ UiBlank

InitChunk == ChunkInputs /\ Blank /\ pc = "ready" /\ edgeLabelsVisible = FALSE

\* the same loader over node rows of a single type: the graph's shape, the
\* chunking and the progress writes do not read the type
InitChunkOneType ==
  /\ InitChunk
  /\ nodesData \in SeqsUpTo(OneTypeNodeRow, MaxNodeRows)

inputVars == <<nodesData, edgesData, chunkSize, builderClears>>
updateVars == <<typeColorMap, consolidatedEdges>>

\* loadGraphInChunks, lines 154-161
LoadStart ==
  /\ pc = "ready"
  /\ totalChunks' = CeilDiv(Len(nodesData), chunkSize)
  /\ progressDisplay' = "block"
  /\ progressMax' = IF totalChunks' > 0 THEN totalChunks' ELSE progressMax
  /\ uniqueNodesMap' = <<>>
  /\ i' = 0
  /\ pc' = "chunk"
  /\ UNCHANGED <<uiVars, legendPanels, inputVars, updateVars, gNodes, gEdges, nextHandle, defaultFill,
                 progressValue, layoutCalls, projection, legend, progressWrites,
                 chunksSeen, prePrune>>

\* loop body up to the await: lines 164-171
ChunkBuild ==
  /\ pc = "chunk" /\ i < totalChunks
  /\ LET nodeChunk == Slice(nodesData, i * chunkSize, (i + 1) * chunkSize)
         merged == MergeChunk(uniqueNodesMap, nodeChunk)
         edgeChunk == EdgeChunk(edgesData, nodeChunk)
         g == updateGraphChunk(gNodes, gEdges, nextHandle, defaultFill,
                               builderClears, MapValues(merged), edgeChunk)
     IN /\ uniqueNodesMap' = merged
        /\ gNodes' = g.nodes
        /\ gEdges' = g.edges
        /\ nextHandle' = g.next
        /\ defaultFill' = g.shared
        /\ chunksSeen' = Append(chunksSeen, nodeChunk)
  /\ pc' = "progress"
  /\ UNCHANGED <<uiVars, legendPanels, inputVars, updateVars, i, totalChunks, progressDisplay,
                 progressMax, progressValue, layoutCalls, projection, legend,
                 progressWrites, prePrune>>

\* after the await: line 173 and the loop increment
ChunkProgress ==
  /\ pc = "progress"
  /\ progressValue' = Min(i + 1, progressMax)
  /\ progressWrites' = Append(progressWrites, i + 1)
  /\ i' = i + 1
  /\ pc' = "chunk"
  /\ UNCHANGED <<uiVars, legendPanels, inputVars, updateVars, totalChunks, uniqueNodesMap, gNodes,
                 gEdges, nextHandle, defaultFill, progressDisplay, progressMax,
                 layoutCalls, projection, legend, chunksSeen, prePrune>>

\* faulty variant of Finish (the progress container stays displayed); C18 must
\* detect it
FinishProgressShown ==
  /\ pc = "chunk" /\ i >= totalChunks
  /\ \E cid \in [Handles(gNodes) -> ClusterIds] :
       LET styled == ApplyClusterStyles(gNodes, cid)
           g == RemoveNodes(styled, gEdges, nodesToRemove(styled, gEdges))
       IN /\ prePrune' = [nodes |-> Handles(gNodes), edges |-> gEdges]
          /\ gNodes' = g.nodes
          /\ gEdges' = g.edges
  /\ layoutCalls' = layoutCalls + 1
  /\ pc' = "layout"
  /\ UNCHANGED <<uiVars, legendPanels, inputVars, updateVars, i, totalChunks,
                 uniqueNodesMap, nextHandle, defaultFill, progressDisplay,
                 progressMax, progressValue, projection, legend, progressWrites,
                 chunksSeen>>

\* lines 176-178 and applyClustering up to the await in applyInitialLayout
Finish ==
  /\ pc = "chunk" /\ i >= totalChunks
  /\ progressDisplay' = "none"
  /\ \E cid \in [Handles(gNodes) -> ClusterIds] :
       LET styled == ApplyClusterStyles(gNodes, cid)
           g == RemoveNodes(styled, gEdges, nodesToRemove(styled, gEdges))
       IN /\ prePrune' = [nodes |-> Handles(gNodes), edges |-> gEdges]
          /\ gNodes' = g.nodes
          /\ gEdges' = g.edges
  /\ layoutCalls' = layoutCalls + 1
  /\ pc' = "layout"
  /\ UNCHANGED <<uiVars, legendPanels, inputVars, updateVars, i, totalChunks, uniqueNodesMap,
                 nextHandle, defaultFill, progressMax, progressValue,
                 projection, legend, progressWrites, chunksSeen>>

\* the layout completes: applyIsometricProjection, then createLegend (line 179)
LayoutDone ==
  /\ pc = "layout"
  /\ projection' = "isometric"
  /\ legend' = ObjectEntries(getTypeColorMap(MapValues(uniqueNodesMap)))
  /\ legendPanels' = ReplacePanel(legendPanels)
  /\ pc' = "done"
  /\ UNCHANGED <<uiVars, inputVars, updateVars, i, totalChunks, uniqueNodesMap, gNodes,
                 gEdges, nextHandle, defaultFill, progressDisplay, progressMax,
                 progressValue, layoutCalls, progressWrites, chunksSeen, prePrune>>

NextChunk == LoadStart \/ ChunkBuild \/ ChunkProgress \/ Finish \/ LayoutDone

SpecChunk == InitChunk /\ [][NextChunk]_vars

SpecChunkOneType == InitChunkOneType /\ [][NextChunk]_vars

\* loadGraphFromFiles, lines 134-150: the second reader's onload parses the edge
\* rows (the node rows were parsed by the first reader's onload) and calls
\* loadGraphInChunks, which runs to its first await (lines 154-161)
EdgesFileRead ==
  /\ pc = "reading"
  /\ nodesData' \in SeqsUpTo(OneTypeNodeRow, MaxNodeRows)
  /\ edgesData' \in SeqsUpTo(PlainEdgeRow, MaxEdgeRows)
  /\ totalChunks' = CeilDiv(Len(nodesData'), chunkSize)
  /\ progressDisplay' = "block"
  /\ progressMax' = IF totalChunks' > 0 THEN totalChunks' ELSE progressMax
  /\ uniqueNodesMap' = <<>>
  /\ i' = 0
  /\ pc' = "chunk"
  /\ UNCHANGED <<uiVars, legendPanels, chunkSize, builderClears, updateVars, gNodes, gEdges,
                 nextHandle, defaultFill, progressValue, layoutCalls, projection,
                 legend, progressWrites, chunksSeen, prePrune>>

\* the page after the load button was clicked with both files chosen
InitChunkReading ==
  /\ nodesData = <<>> /\ edgesData = <<>>
  /\ chunkSize \in 1..(MaxNodeRows + 1)
  /\ builderClears \in BOOLEAN
  /\ Blank
  /\ pc = "reading"
  /\ edgeLabelsVisible = FALSE

NextChunkFromFiles ==
  EdgesFileRead \/ ChunkBuild \/ ChunkProgress \/ Finish \/ LayoutDone

\* the position change of each step of the load; every step's guard reads
\* only pc and the loop counter (EdgesFileRead, ChunkBuild, ChunkProgress,
\* Finish, LayoutDone, in this order)
Resume ==
  \/ pc = "reading" /\ pc' = "chunk"
  \/ pc = "chunk" /\ i < totalChunks /\ pc' = "progress"
  \/ pc = "progress" /\ pc' = "chunk"
  \/ pc = "chunk" /\ i >= totalChunks /\ pc' = "layout"
  \/ pc = "layout" /\ pc' = "done"

\* the load with its continuations scheduled whenever they can run: the event
\* loop runs every callback whose file read or awaited promise has completed,
\* and the layout engine is taken to settle its promise by resolving it
SpecChunkFair ==
  InitChunkReading /\ [][NextChunkFromFiles]_vars /\ WF_pc(Resume)

(***************************************************************************)
(* Consolidating loader (part_000:128-189, 267-322)                        *)
(***************************************************************************)
\* x || fallback for strings
OrElse(x, fallback) == IF x = "" THEN fallback ELSE x

\* nodesData.forEach(node => { if (!uniqueNodes.has(node.id)) uniqueNodes.set(node.id, node) })
RECURSIVE UniqueNodes(_, _)
UniqueNodes(m, rows) ==
  IF rows = <<>> THEN m
  ELSE IF MapHas(m, Head(rows).id)
       THEN UniqueNodes(m, Tail(rows))
       ELSE UniqueNodes(MapSet(m, Head(rows).id, Head(rows)), Tail(rows))

\* lines 144-148: typeColorMap as filled while the unique nodes are walked
AssignTypeColors(rows) == TypeColorFold(<<>>, 0, rows)

\* lines 149-155: one node per unique row, styled with its type's color and
\* labelled with its label or "No Label"
CreateNodes(rows, next) ==
  LET tcm == AssignTypeColors(rows)
  IN [k \in 1..Len(rows) |->
        [h |-> next + k - 1, item |-> rows[k], shared |-> FALSE,
         fill |-> MapGet(tcm, rows[k].type),
         labels |-> <<OrElse(rows[k].label, "No Label")>>]]

\* `${edge.source}-${edge.target}`
edgeKey(edge) == edge.source \o "-" \o edge.target

\* faulty variant of ConsolidateStep (a repeat overwrites the edgeType); C5 must
\* detect it
ConsolidateStepLastType(m, edge) ==
  IF MapHas(m, edgeKey(edge))
  THEN LET old == MapGet(m, edgeKey(edge))
       IN MapSet(m, edgeKey(edge),
                 [old EXCEPT !.count = old.count + 1, !.edgeType = edge.edgeType])
  ELSE MapSet(m, edgeKey(edge),
              [source |-> edge.source, target |-> edge.target, count |-> 1,
               edgeType |-> edge.edgeType])

\* lines 160-167: one step of the consolidation
ConsolidateStep(m, edge) ==
  IF MapHas(m, edgeKey(edge))
  THEN LET old == MapGet(m, edgeKey(edge))
       IN MapSet(m, edgeKey(edge), [old EXCEPT !.count = old.count + 1])
  ELSE MapSet(m, edgeKey(edge),
              [source |-> edge.source, target |-> edge.target, count |-> 1,
               edgeType |-> edge.edgeType])

RECURSIVE ConsolidateEdges(_, _)
ConsolidateEdges(m, rows) ==
  IF rows = <<>> THEN m
  ELSE ConsolidateEdges(ConsolidateStep(m, Head(rows)), Tail(rows))

\* graph.nodes.find(node => node.tag.id === id): the first such node, 0 if none
FindNode(nodes, id) ==
  LET k == FirstIndex(nodes, LAMBDA n : n.item.id = id)
  IN IF k = 0 THEN 0 ELSE nodes[k].h

\* lines 169-185: an edge per consolidated entry whose endpoints are both found,
\* labelled with its edgeType or "No Type"
CreateEdges(entries, nodes) ==
  LET found(e) == FindNode(nodes, e.source) # 0 /\ FindNode(nodes, e.target) # 0
      kept == SelectSeq(entries, found)
  IN [k \in 1..Len(kept) |->
        [src |-> FindNode(nodes, kept[k].source),
         tgt |-> FindNode(nodes, kept[k].target),
         tag |-> kept[k],
         labels |-> <<OrElse(kept[k].edgeType, "No Type")>>]]

\* Color.toString(): the library's text for a fill color
ColorText(fill) == "color:" \o fill

\* createLegend(graphComponent), lines 290-299: the first fill seen per node type
RECURSIVE LegendFold(_, _)
LegendFold(m, nodes) ==
  IF nodes = <<>> THEN m
  ELSE LET n == Head(nodes)
       IN IF n.item.type # "" /\ ~MapHas(m, n.item.type)
          THEN LegendFold(MapSet(m, n.item.type, ColorText(n.fill)), Tail(nodes))
          ELSE LegendFold(m, Tail(nodes))
LegendOfGraph(nodes) == LegendFold(<<>>, nodes)

UpdateInputs ==
  /\ nodesData \in SeqsUpTo(NodeRow, MaxUpdateNodeRows)
  /\ edgesData \in SeqsUpTo(EdgeRow, MaxUpdateEdgeRows)
  /\ chunkSize = 1
  /\ builderClears = FALSE

InitUpdate == UpdateInputs /\ Blank /\ pc = "parsed" /\ edgeLabelsVisible = TRUE

\* updateGraph, the whole handler
UpdateGraph ==
  /\ pc = "parsed"
  /\ LET unique == UniqueNodes(<<>>, nodesData)
         rows == MapValues(unique)
         nodes == CreateNodes(rows, nextHandle)
         entries == ConsolidateEdges(<<>>, edgesData)
     IN /\ uniqueNodesMap' = unique
        /\ typeColorMap' = AssignTypeColors(rows)
        /\ gNodes' = nodes
        /\ nextHandle' = nextHandle + Len(rows)
        /\ consolidatedEdges' = entries
        /\ gEdges' = CreateEdges(MapValues(entries), nodes)
        /\ legend' = ObjectEntries(LegendOfGraph(nodes))
        /\ legendPanels' = ReplacePanel(legendPanels)
  /\ pc' = "done"
  /\ UNCHANGED <<uiVars, inputVars, i, totalChunks, defaultFill, progressDisplay,
                 progressMax, progressValue, layoutCalls, projection,
                 progressWrites, chunksSeen, prePrune>>

NextUpdate == UpdateGraph

SpecUpdate == InitUpdate /\ [][NextUpdate]_vars

(***************************************************************************)
(* Upload-driven loader (part_000:326-609)                                 *)
(*                                                                         *)
(* Every change event of a file input runs handleFileUpload; the calls are *)
(* the elements of `uploads`, and a call is suspended while its file is    *)
(* read, while morphLayout runs and while the edge router runs.            *)
(***************************************************************************)
\* change events of the file inputs; rows of an uploaded nodes / edges file
MaxUploads == 3
MaxUploadNodeRows == 2
MaxUploadEdgeRows == 1

UploadTypes == {"X", "Y"}
UploadNodeRow == [id : NodeIds, type : UploadTypes, label : {""}]
NodeFiles == SeqsUpTo(UploadNodeRow, MaxUploadNodeRows)
EdgeFiles == SeqsUpTo(PlainEdgeRow, MaxUploadEdgeRows)

colorPalette ==
  <<"#FF5733", "#33FF57", "#3357FF", "#FF33A8", "#FF8C33", "#33FF8C", "#8C33FF",
    "#FFD633", "#33FFF3", "#F333FF", "#33FFBD", "#FF336E", "#33D1FF", "#FF8333",
    "#BFFF33", "#FF33F1">>

\* Array.from(new Map(nodes.map(node => [node.id, node])).values())
UploadUnique(nodes) == MapValues(MergeChunk(<<>>, nodes))

\* the first nodeCreated listener, over the builder's nodes in data order:
\* if (!typeColors[type]) typeColors[type] = colorPalette[Object.keys(typeColors).length % 16]
RECURSIVE UploadTypeColors(_, _)
UploadTypeColors(tc, items) ==
  IF items = <<>> THEN tc
  ELSE IF MapHas(tc, Head(items).type)
       THEN UploadTypeColors(tc, Tail(items))
       ELSE UploadTypeColors(
              MapSet(tc, Head(items).type,
                     colorPalette[(Len(tc) % Len(colorPalette)) + 1]),
              Tail(items))

\* the builder's nodes: graph.setStyle gives each its own style in its type's color
UploadBuilderNodes(items, next, tc) ==
  [k \in 1..Len(items) |->
     [h |-> next + k - 1, item |-> items[k], shared |-> FALSE,
      fill |-> MapGet(tc, items[k].type),
      labels |-> <<OrElse(items[k].label, "")>>]]

\* loadAndProcessCSVFiles up to its first await: lines 466-509
loadAndProcessCSVFiles(nodes, edges, next, tc, clears, oldNodes, oldEdges) ==
  LET unique == UploadUnique(nodes)
      colored == UploadTypeColors(tc, unique)
      created == UploadBuilderNodes(unique, next, colored)
      added == BuilderEdges(edges, created)
  IN [nodes |-> (IF clears THEN <<>> ELSE oldNodes) \o created,
      edges |-> (IF clears THEN <<>> ELSE oldEdges) \o added,
      next |-> next + Len(unique),
      typeColors |-> colored]

\* the call that changes the graph is noted once per run of changes
Touch(log, k) == IF log # <<>> /\ log[Len(log)] = k THEN log ELSE Append(log, k)

InitUpload ==
  /\ nodesData = <<>> /\ edgesData = <<>> /\ chunkSize = 1
  /\ builderClears \in BOOLEAN
  /\ Blank
  /\ pc = "boot"
  /\ edgeLabelsVisible = TRUE

graphVars == <<gNodes, gEdges, nextHandle>>
idleLoaderVars == <<inputVars, updateVars, i, totalChunks, uniqueNodesMap,
                    defaultFill, progressDisplay, progressMax, progressValue,
                    progressWrites, chunksSeen, prePrune>>

\* run(), lines 375-383: the listeners are registered, the legend is created
RunUpload ==
  /\ pc = "boot"
  /\ legend' = ObjectEntries(typeColors)
  /\ legendPanels' = (IF legendPanels > 0 THEN legendPanels ELSE 1)
  /\ pc' = "serving"
  /\ UNCHANGED <<idleLoaderVars, graphVars, layoutCalls, projection, uploadVars,
                 layoutVars, menuVars, viewVars>>

\* handleFileUpload up to `await file.text()`, lines 444-450, for a change
\* event that carries a file
FileChange ==
  /\ pc = "serving" /\ Len(uploads) < MaxUploads
  /\ \E kind \in {"nodes", "edges"} :
       \E rows \in (IF kind = "nodes" THEN NodeFiles ELSE EdgeFiles) :
         uploads' = Append(uploads, [pc |-> "reading", kind |-> kind, rows |-> rows])
  /\ fileReads' = fileReads + 1
  /\ UNCHANGED <<loaderVars, uploadedNodes, uploadedEdges, typeColors, alerts,
                 loneRequests, lastLoad, mutators, layoutVars, menuVars, viewVars>>

\* handleFileUpload for a change event whose file list is empty: line 445
FileChangeEmpty ==
  /\ pc = "serving" /\ Len(uploads) < MaxUploads
  /\ \E kind \in {"nodes", "edges"} :
       uploads' = Append(uploads, [pc |-> "returned", kind |-> kind, rows |-> <<>>])
  /\ UNCHANGED <<loaderVars, uploadedNodes, uploadedEdges, typeColors, alerts,
                 fileReads, loneRequests, lastLoad, mutators, layoutVars, menuVars, viewVars>>

\* the file's text arrives: lines 451-461, and loadAndProcessCSVFiles up to
\* `await graphComponent.morphLayout`; the call's parsedData is dead afterwards
ReadDone(k) ==
  /\ uploads[k].pc = "reading"
  /\ LET got == [has |-> TRUE, rows |-> uploads[k].rows]
         nodes == IF uploads[k].kind = "nodes" THEN got ELSE uploadedNodes
         edges == IF uploads[k].kind = "edges" THEN got ELSE uploadedEdges
     IN /\ uploadedNodes' = nodes
        /\ uploadedEdges' = edges
        /\ IF nodes.has /\ edges.has
           THEN LET g == loadAndProcessCSVFiles(nodes.rows, edges.rows, nextHandle,
                                                typeColors, builderClears,
                                                gNodes, gEdges)
                IN /\ gNodes' = g.nodes
                   /\ gEdges' = g.edges
                   /\ nextHandle' = g.next
                   /\ typeColors' = g.typeColors
                   /\ lastLoad' = [nodes |-> nodes.rows, edges |-> edges.rows]
                   /\ mutators' = Touch(mutators, k)
                   /\ uploads' = [uploads EXCEPT ![k].pc = "morph", ![k].rows = <<>>]
                   /\ UNCHANGED loneRequests
           ELSE /\ uploads' = [uploads EXCEPT ![k].pc = "returned", ![k].rows = <<>>]
                /\ loneRequests' = loneRequests + 1
                /\ UNCHANGED <<graphVars, typeColors, lastLoad, mutators>>
  /\ UNCHANGED <<idleLoaderVars, pc, layoutCalls, projection, legend, legendPanels,
                 alerts, fileReads, layoutVars, menuVars, viewVars>>

\* morphLayout has arranged the graph: lines 517-525, up to `await layoutExecutor.start()`
MorphDone(k) ==
  /\ uploads[k].pc = "morph"
  /\ arrangement' = "OrganicLayout"
  /\ layoutCalls' = layoutCalls + 1
  /\ mutators' = Touch(mutators, k)
  /\ uploads' = [uploads EXCEPT ![k].pc = "routing"]
  /\ UNCHANGED <<idleLoaderVars, graphVars, pc, projection, legend, legendPanels,
                 uploadedNodes, uploadedEdges, typeColors, alerts, fileReads,
                 loneRequests, lastLoad, layoutRuns, consoleErrors,
                 unhandledRejections, menuVars, viewVars>>

\* the edge router has routed the edges: lines 527-534 and createLegend, 553-591
RoutingDone(k) ==
  /\ uploads[k].pc = "routing"
  /\ arrangement' = "OrganicEdgeRouter"
  /\ mutators' = Touch(mutators, k)
  /\ projection' = "isometric"
  /\ legend' = ObjectEntries(typeColors)
  /\ legendPanels' = (IF legendPanels > 0 THEN legendPanels ELSE 1)
  /\ uploads' = [uploads EXCEPT ![k].pc = "done"]
  /\ UNCHANGED <<idleLoaderVars, graphVars, pc, layoutCalls, uploadedNodes,
                 uploadedEdges, typeColors, alerts, fileReads, loneRequests,
                 lastLoad, layoutRuns, consoleErrors, unhandledRejections,
                 menuVars, viewVars>>

NextUpload ==
  \/ RunUpload
  \/ FileChange
  \/ FileChangeEmpty
  \/ \E k \in 1..Len(uploads) : ReadDone(k)
  \/ \E k \in 1..Len(uploads) : MorphDone(k)
  \/ \E k \in 1..Len(uploads) : RoutingDone(k)

SpecUpload == InitUpload /\ [][NextUpload]_vars

(***************************************************************************)
(* Apply-layout handler (part_000:222-265; part_001:343-385 differs in the *)
(* layout classes only)                                                    *)
(*                                                                         *)
(* Every click runs the async handler; the clicks are the elements of      *)
(* `layoutRuns`. A LayoutExecutor's promise is settled by the layout       *)
(* engine, either way.                                                     *)
(***************************************************************************)
\* clicks on btn-apply-layout
MaxClicks == 2

\* values of the layout-options select; "other" is any value without a case
LayoutOptions == {"hierarchic", "organic", "orthogonal", "circular", "other"}

\* the switch of lines 226-242
LayoutFor(layoutOption) ==
  CASE layoutOption = "hierarchic" -> "HierarchicLayout"
    [] layoutOption = "organic" -> "OrganicLayout"
    [] layoutOption = "orthogonal" -> "OrthogonalLayout"
    [] layoutOption = "circular" -> "CircularLayout"
    [] OTHER -> "OrganicLayout"

InitLayout ==
  /\ nodesData = <<>> /\ edgesData = <<>> /\ chunkSize = 1
  /\ builderClears = FALSE
  /\ Blank
  /\ pc = "loaded"
  /\ edgeLabelsVisible = TRUE

quietLoaderVars == <<idleLoaderVars, graphVars, pc, projection, legend, legendPanels>>

\* the click handler up to `await layoutExecutor.start()`: lines 224-245
ApplyLayoutClick ==
  /\ pc = "loaded" /\ Len(layoutRuns) < MaxClicks
  /\ \E layoutOption \in LayoutOptions :
       layoutRuns' = Append(layoutRuns,
                            [option |-> layoutOption, layout |-> LayoutFor(layoutOption),
                             pc |-> "primary"])
  /\ layoutCalls' = layoutCalls + 1
  /\ UNCHANGED <<quietLoaderVars, uploadVars, arrangement, consoleErrors,
                 unhandledRejections, menuVars, viewVars>>

\* the primary layout's promise resolves: line 247 and applyEdgeRouting up to
\* layoutExecutor.start(), lines 252-262; the handler returns
PrimaryResolved(k) ==
  /\ layoutRuns[k].pc = "primary"
  /\ arrangement' = layoutRuns[k].layout
  /\ layoutCalls' = layoutCalls + 1
  /\ layoutRuns' = [layoutRuns EXCEPT ![k].pc = "routing"]
  /\ UNCHANGED <<quietLoaderVars, uploadVars, consoleErrors, unhandledRejections,
                 menuVars, viewVars>>

\* faulty variant of PrimaryRejected (routing is started although the primary
\* layout failed); C21 must detect it
PrimaryRejectedRoutes(k) ==
  /\ layoutRuns[k].pc = "primary"
  /\ unhandledRejections' = unhandledRejections + 1
  /\ layoutCalls' = layoutCalls + 1
  /\ layoutRuns' = [layoutRuns EXCEPT ![k].pc = "routing"]
  /\ UNCHANGED <<quietLoaderVars, uploadVars, arrangement, consoleErrors, menuVars, viewVars>>

\* the primary layout's promise rejects: the await throws inside the handler,
\* which has no try/catch, so the handler's own promise rejects unobserved
PrimaryRejected(k) ==
  /\ layoutRuns[k].pc = "primary"
  /\ unhandledRejections' = unhandledRejections + 1
  /\ layoutRuns' = [layoutRuns EXCEPT ![k].pc = "primaryFailed"]
  /\ UNCHANGED <<loaderVars, uploadVars, arrangement, consoleErrors, menuVars, viewVars>>

\* the edge router's promise resolves: nothing is chained on success
RoutingResolved(k) ==
  /\ layoutRuns[k].pc = "routing"
  /\ arrangement' = "EdgeRouter"
  /\ layoutRuns' = [layoutRuns EXCEPT ![k].pc = "routed"]
  /\ UNCHANGED <<loaderVars, uploadVars, consoleErrors, unhandledRejections,
                 menuVars, viewVars>>

\* faulty variant of RoutingRejected (no .catch on the router's promise); C17
\* must detect it
RoutingRejectedUncaught(k) ==
  /\ layoutRuns[k].pc = "routing"
  /\ unhandledRejections' = unhandledRejections + 1
  /\ layoutRuns' = [layoutRuns EXCEPT ![k].pc = "routingFailed"]
  /\ UNCHANGED <<loaderVars, uploadVars, arrangement, consoleErrors, menuVars, viewVars>>

\* the edge router's promise rejects: .catch(error => console.error(...)),
\* lines 262-264
RoutingRejected(k) ==
  /\ layoutRuns[k].pc = "routing"
  /\ consoleErrors' = consoleErrors + 1
  /\ layoutRuns' = [layoutRuns EXCEPT ![k].pc = "routingFailed"]
  /\ UNCHANGED <<loaderVars, uploadVars, arrangement, unhandledRejections, menuVars, viewVars>>

NextLayout ==
  \/ ApplyLayoutClick
  \/ \E k \in 1..Len(layoutRuns) : PrimaryResolved(k)
  \/ \E k \in 1..Len(layoutRuns) : PrimaryRejected(k)
  \/ \E k \in 1..Len(layoutRuns) : RoutingResolved(k)
  \/ \E k \in 1..Len(layoutRuns) : RoutingRejected(k)

SpecLayout == InitLayout /\ [][NextLayout]_vars

\* the apply-layout handler of the chunked revision (part_001:343-385): the
\* same handler over other layout classes
\* the switch of part_001:347-363
LayoutForChunked(layoutOption) ==
  CASE layoutOption = "hierarchic" -> "HierarchicLayout"
    [] layoutOption = "organic" -> "OrganicLayout"
    [] layoutOption = "orthogonal" -> "OrthogonalLayout"
    [] layoutOption = "circular" -> "CactusGroupLayout"
    [] OTHER -> "OrganicLayout"

\* the page of the chunked revision before a load
InitLayoutChunked ==
  /\ nodesData = <<>> /\ edgesData = <<>> /\ chunkSize = 1
  /\ builderClears = FALSE
  /\ Blank
  /\ pc = "ready"
  /\ edgeLabelsVisible = FALSE

\* the click handler up to `await layoutExecutor.start()`: part_001:344-366
ApplyLayoutClickChunked ==
  /\ pc = "ready" /\ Len(layoutRuns) < MaxClicks
  /\ \E layoutOption \in LayoutOptions :
       layoutRuns' = Append(layoutRuns,
                            [option |-> layoutOption,
                             layout |-> LayoutForChunked(layoutOption),
                             pc |-> "primary"])
  /\ layoutCalls' = layoutCalls + 1
  /\ UNCHANGED <<quietLoaderVars, uploadVars, arrangement, consoleErrors,
                 unhandledRejections, menuVars, viewVars>>

\* the organic edge router's promise resolves: part_001:382
OrganicRoutingResolved(k) ==
  /\ layoutRuns[k].pc = "routing"
  /\ arrangement' = "OrganicEdgeRouter"
  /\ layoutRuns' = [layoutRuns EXCEPT ![k].pc = "routed"]
  /\ UNCHANGED <<loaderVars, uploadVars, consoleErrors, unhandledRejections,
                 menuVars, viewVars>>

NextLayoutChunked ==
  \/ ApplyLayoutClickChunked
  \/ \E k \in 1..Len(layoutRuns) : PrimaryResolved(k)
  \/ \E k \in 1..Len(layoutRuns) : PrimaryRejected(k)
  \/ \E k \in 1..Len(layoutRuns) : OrganicRoutingResolved(k)
  \/ \E k \in 1..Len(layoutRuns) : RoutingRejected(k)

SpecLayoutChunked == InitLayoutChunked /\ [][NextLayoutChunked]_vars

(***************************************************************************)
(* Context menu (src/context-menu.ts)                                      *)
(*                                                                         *)
(* lib/ContextMenu is not part of the sources: clearItems is taken to      *)
(* empty the menu and addMenuItem to append one item.                      *)
(***************************************************************************)
\* the model items of the displayed graph; "null" is no item
MenuNodes == {"n1", "n2", "n3"}
MenuEdges == {"e1"}
ModelItems == MenuNodes \cup MenuEdges

\* graphComponent.selection.selectedNodes
selectedNodes(sel) == sel \cap MenuNodes

\* faulty variant of updateSelection (the selection is kept when no node was
\* hit); C20 must detect it
updateSelectionKeeps(sel, current, node) ==
  IF node = "null" THEN [selection |-> sel, currentItem |-> current]
  ELSE IF node \notin selectedNodes(sel)
       THEN [selection |-> {node}, currentItem |-> node]
       ELSE [selection |-> sel, currentItem |-> current]

\* updateSelection, lines 128-143
updateSelection(sel, current, node) ==
  IF node = "null" THEN [selection |-> {}, currentItem |-> current]
  ELSE IF node \notin selectedNodes(sel)
       THEN [selection |-> {node}, currentItem |-> node]
       ELSE [selection |-> sel, currentItem |-> current]

InitMenu ==
  /\ nodesData = <<>> /\ edgesData = <<>> /\ chunkSize = 1
  /\ builderClears = FALSE
  /\ Blank
  /\ pc = "loaded"
  /\ edgeLabelsVisible = TRUE

\* the viewer input mode changes the selection and the current item on clicks,
\* modifier clicks and keys; which gesture does what is the library's matter
UserSelects ==
  /\ \E sel \in SUBSET ModelItems : selection' = sel
  /\ \E current \in ModelItems \cup {"null"} : currentItem' = current
  /\ UNCHANGED <<loaderVars, uploadVars, layoutVars, menuItems, populated, viewVars>>

\* populateContextMenu, lines 89-121, for the event's item
PopulateContextMenu(item) ==
  LET node == IF item \in MenuNodes THEN item ELSE "null"
      updated == updateSelection(selection, currentItem, node)
      cleared == <<>>
  IN /\ selection' = updated.selection
     /\ currentItem' = updated.currentItem
     /\ menuItems' = IF Cardinality(selectedNodes(updated.selection)) > 0
                     THEN Append(cleared, "Zoom to node")
                     ELSE Append(cleared, "Fit Graph Bounds")
     /\ populated' = [item |-> item, before |-> selection,
                      parity |-> ~populated.parity]
     /\ UNCHANGED <<loaderVars, uploadVars, layoutVars, viewVars>>

NextMenu ==
  \/ UserSelects
  \/ \E item \in ModelItems \cup {"null"} : PopulateContextMenu(item)

SpecMenu == InitMenu /\ [][NextMenu]_vars

(***************************************************************************)
(* Edge-label toggle (part_000:191-220, part_001:283-311)                  *)
(***************************************************************************)
\* showEdgeLabels: a label with the tag's edgeType for every edge that has no
\* label and a truthy edgeType
showEdgeLabels(edges) ==
  [k \in 1..Len(edges) |->
     IF Len(edges[k].labels) = 0 /\ edges[k].tag.edgeType # ""
     THEN [edges[k] EXCEPT !.labels = <<edges[k].tag.edgeType>>]
     ELSE edges[k]]

\* hideEdgeLabels: every label of every edge is removed
hideEdgeLabels(edges) ==
  [k \in 1..Len(edges) |-> [edges[k] EXCEPT !.labels = <<>>]]

\* the labels that showEdgeLabels adds are new labels, without a tag
ShownTags(edges, tags) ==
  [k \in DOMAIN tags |->
     IF k <= Len(edges) /\ Len(edges[k].labels) = 0 /\ edges[k].tag.edgeType # ""
     THEN <<"">> ELSE tags[k]]

\* the click listener of btn-toggle-edge-labels
ToggleEdgeLabels ==
  /\ edgeLabelsVisible' = ~edgeLabelsVisible
  /\ IF edgeLabelsVisible'
     THEN /\ gEdges' = showEdgeLabels(gEdges)
          /\ labelTags' = [labelTags EXCEPT !.edges = ShownTags(gEdges, labelTags.edges)]
          /\ UNCHANGED hiddenLabels
     ELSE /\ gEdges' = hideEdgeLabels(gEdges)
          /\ labelTags' = [labelTags EXCEPT !.edges = <<>>]
          /\ hiddenLabels' = gEdges
  /\ UNCHANGED <<idleLoaderVars, gNodes, nextHandle, pc, layoutCalls, projection,
                 legend, legendPanels, uploadVars, layoutVars, menuVars, zoom>>

\* the consolidating revision with its toggle button: the button can be
\* clicked before and after the files are loaded
NextToggle == ToggleEdgeLabels \/ UpdateGraph

SpecToggle == InitUpdate /\ [][NextToggle]_vars

(***************************************************************************)
(* Level of detail (part_001:387-422)                                      *)
(***************************************************************************)
\* graphComponent.zoom in tenths: 0.5, 0.7 and 1.0
ZoomLevels == {5, 7, 10}

\* the tags of an item's labels; a label nobody tagged has the tag ""
TagsOf(tags, key, labels) ==
  IF key \in DOMAIN tags THEN tags[key] ELSE [k \in 1..Len(labels) |-> ""]

\* labels.toArray() with each label's tag
Tagged(labels, tags) == [k \in 1..Len(labels) |-> [text |-> labels[k], tag |-> tags[k]]]

\* the labels of the snapshot that are in the graph after the listener's loop,
\* lines 395-404: an untagged label is tagged 'visible' when labels are shown, a
\* 'visible' label is removed when they are not
RECURSIVE LodKept(_, _)
LodKept(snapshot, showLabels) ==
  IF snapshot = <<>> THEN <<>>
  ELSE LET label == Head(snapshot)
           rest == LodKept(Tail(snapshot), showLabels)
       IN IF showLabels /\ label.tag = "" THEN <<[label EXCEPT !.tag = "visible"]>> \o rest
          ELSE IF ~showLabels /\ label.tag = "visible" THEN rest
          ELSE IF showLabels /\ label.tag = "hidden"
               THEN <<[label EXCEPT !.tag = "visible"]>> \o rest
               ELSE <<label>> \o rest

\* the labels the loop adds: a copy of every 'hidden' label of the snapshot
\* when labels are shown
RECURSIVE LodAdded(_, _)
LodAdded(snapshot, showLabels) ==
  IF snapshot = <<>> THEN <<>>
  ELSE LET label == Head(snapshot)
           rest == LodAdded(Tail(snapshot), showLabels)
       IN IF showLabels /\ label.tag = "hidden"
          THEN <<[text |-> label.text, tag |-> ""]>> \o rest
          ELSE rest

LodLabels(labels, tags, showLabels) ==
  LodKept(Tagged(labels, tags), showLabels) \o LodAdded(Tagged(labels, tags), showLabels)

TextsOf(tagged) == [k \in 1..Len(tagged) |-> tagged[k].text]
TagsIn(tagged) == [k \in 1..Len(tagged) |-> tagged[k].tag]

\* the zoom-changed listener, for a zoom that differs from the current one. A
\* user's zoom gesture is an event: it runs while no load is running or while
\* the load awaits the layout engine
ZoomChanged(z) ==
  /\ pc \in {"ready", "layout", "done"}
  /\ z # zoom
  /\ zoom' = z
  /\ LET showLabels == z > 7
         nodeLabels(k) == LodLabels(gNodes[k].labels,
                                    TagsOf(labelTags.nodes, gNodes[k].h, gNodes[k].labels),
                                    showLabels)
         edgeLabels(k) == LodLabels(gEdges[k].labels,
                                    TagsOf(labelTags.edges, k, gEdges[k].labels),
                                    showLabels)
     IN /\ gNodes' = [k \in 1..Len(gNodes) |->
                        [gNodes[k] EXCEPT !.labels = TextsOf(nodeLabels(k))]]
        /\ gEdges' = [k \in 1..Len(gEdges) |->
                        [gEdges[k] EXCEPT !.labels = TextsOf(edgeLabels(k))]]
        /\ labelTags' =
             [nodes |-> [h \in Handles(gNodes) |->
                           LET k == CHOOSE j \in 1..Len(gNodes) : gNodes[j].h = h
                           IN TagsIn(nodeLabels(k))],
              edges |-> [k \in 1..Len(gEdges) |-> TagsIn(edgeLabels(k))]]
  /\ UNCHANGED <<idleLoaderVars, nextHandle, pc, layoutCalls, projection, legend,
                 legendPanels, uploadVars, layoutVars, menuVars, edgeLabelsVisible,
                 hiddenLabels>>

NextLod == NextChunk \/ \E z \in ZoomLevels : ZoomChanged(z)

\* the chunked loader with its level-of-detail listener
SpecLod == InitChunkOneType /\ [][NextLod]_vars

(***************************************************************************)
(* Vocabulary of the properties                                            *)
(***************************************************************************)
\* the chunk loop of loadGraphInChunks has ended and post-processing has not begun
LoopEnded == pc = "chunk" /\ i >= totalChunks

IdsOf(rows) == {rows[k].id : k \in 1..Len(rows)}

\* number of graph nodes built from a row / of graph edges tagged with a row
NodeCount(nodes, row) == Cardinality({k \in 1..Len(nodes) : nodes[k].item = row})
EdgeCount(edges, row) == Cardinality({k \in 1..Len(edges) : edges[k].tag = row})

\* the last row with a given id
LastRowWithId(rows, id) == rows[LastIndex(rows, LAMBDA r : r.id = id)]

\* one non-chunked construction: a single builder pass over all rows and edges
NonChunked ==
  updateGraphChunk(<<>>, <<>>, 1, "", builderClears,
                   MapValues(MergeChunk(<<>>, nodesData)), edgesData)

(***************************************************************************)
(* C1. For chunk size C in {1, N, N+1}, the chunked build ends with the    *)
(* same graph nodes and the same graph edges as one non-chunked            *)
(* construction: no node or edge is materialized once more because a later *)
(* chunk submitted it again, and none is missing.                          *)
(* Stated as an invariant of the state in which the chunk loop has ended.  *)
(***************************************************************************)
C1_ChunkedEqualsNonChunked ==
  (LoopEnded /\ chunkSize \in {1, Len(nodesData), Len(nodesData) + 1}) =>
    /\ \A row \in PlainNodeRow : NodeCount(gNodes, row) = NodeCount(NonChunked.nodes, row)
    /\ \A row \in PlainEdgeRow : EdgeCount(gEdges, row) = EdgeCount(NonChunked.edges, row)

(***************************************************************************)
(* C2. Node deduplication is last-write-wins: after a load, each id of the *)
(* input has exactly one graph node, and that node carries the type and    *)
(* label of the LAST input row with that id.                               *)
(***************************************************************************)
C2_LastWriteWins ==
  pc = "done" =>
    \A id \in IdsOf(nodesData) :
      /\ Cardinality({k \in 1..Len(gNodes) : gNodes[k].item.id = id}) = 1
      /\ \A k \in 1..Len(gNodes) :
           gNodes[k].item.id = id => gNodes[k].item = LastRowWithId(nodesData, id)

RowsWithPair(rows, s, t) == {k \in 1..Len(rows) : rows[k].source = s /\ rows[k].target = t}
EntriesWithPair(m, s, t) == {k \in 1..Len(m) : m[k].value.source = s /\ m[k].value.target = t}

C4_OneEntryPerPair ==
  pc = "done" =>
    \A s, t \in NodeIds :
      IF RowsWithPair(edgesData, s, t) = {}
      THEN EntriesWithPair(consolidatedEdges, s, t) = {}
      ELSE /\ Cardinality(EntriesWithPair(consolidatedEdges, s, t)) = 1
           /\ \A k \in EntriesWithPair(consolidatedEdges, s, t) :
                consolidatedEdges[k].value.count = Cardinality(RowsWithPair(edgesData, s, t))

(***************************************************************************)
(* C5. A consolidated edge keeps the edgeType of the first input row with  *)
(* its (source, target) pair; the rows that follow only add to the counts  *)
(* (every row is counted exactly once), and the graph edge built from the  *)
(* entry carries that same edgeType.                                       *)
(***************************************************************************)
RECURSIVE SumCounts(_)
SumCounts(m) == IF m = <<>> THEN 0 ELSE Head(m).value.count + SumCounts(Tail(m))

FirstRowWithPair(rows, s, t) ==
  rows[FirstIndex(rows, LAMBDA r : r.source = s /\ r.target = t)]

C5_FirstEdgeTypeKept ==
  pc = "done" =>
    /\ \A k \in 1..Len(consolidatedEdges) :
         LET e == consolidatedEdges[k].value
         IN /\ RowsWithPair(edgesData, e.source, e.target) # {}
            /\ e.edgeType = FirstRowWithPair(edgesData, e.source, e.target).edgeType
    /\ SumCounts(consolidatedEdges) = Len(edgesData)
    /\ \A k \in 1..Len(gEdges) :
         gEdges[k].tag.edgeType =
           FirstRowWithPair(edgesData, gEdges[k].tag.source, gEdges[k].tag.target).edgeType

\* two rows with the same pair and different edgeTypes were consolidated
C5_Witness ==
  /\ pc = "done"
  /\ \E j, k \in 1..Len(edgesData) :
       /\ j < k
       /\ edgesData[j].source = edgesData[k].source
       /\ edgesData[j].target = edgesData[k].target
       /\ edgesData[j].edgeType # edgesData[k].edgeType
  /\ \E k \in 1..Len(consolidatedEdges) : consolidatedEdges[k].value.count = 2
  /\ gEdges # <<>>

(***************************************************************************)
(* C6. Within a load the k-th distinct type first seen (k from 0, in node  *)
(* iteration order) has the color palette[k mod paletteSize], and every    *)
(* node of that type is drawn with that color.                             *)
(* Stated for the nodes of the graph while and after they are created,     *)
(* before the clustering step restyles them.                               *)
(***************************************************************************)
\* number of distinct types seen before the first row of the given type
TypeRank(rows, type) ==
  LET first == FirstIndex(rows, LAMBDA r : r.type = type)
  IN Cardinality({rows[j].type : j \in 1..(first - 1)})

C6_PaletteByFirstSeen ==
  (pc \in {"chunk", "progress"} \/ (pc = "done" /\ layoutCalls = 0)) =>
    \A k \in 1..Len(gNodes) :
      RenderedFill(gNodes[k], defaultFill) =
        PaletteAt(TypeRank(MapValues(uniqueNodesMap), gNodes[k].item.type))

(***************************************************************************)
(* C7. An edge record one of whose ids matches no accumulated node is      *)
(* never materialized and never stops the load: at every point every graph *)
(* edge joins two nodes of the graph, built from the records its own       *)
(* record names, and a load that has left the chunk loop has processed     *)
(* every chunk.                                                            *)
(***************************************************************************)
NodeByHandle(nodes, h) == nodes[CHOOSE k \in 1..Len(nodes) : nodes[k].h = h]

C8_PruneOnlyIsolated ==
  pc \in {"layout", "done"} =>
    /\ \A k \in 1..Len(gNodes) : Degree(gNodes[k].h, gEdges) > 0
    /\ \A h \in prePrune.nodes :
         Degree(h, prePrune.edges) > 0 => h \in Handles(gNodes)
    /\ gEdges = prePrune.edges

\* pruning removed an isolated node and kept a node whose only edge is a self-loop
C8_Witness ==
  /\ pc = "layout"
  /\ prePrune.nodes # Handles(gNodes)
  /\ \E k \in 1..Len(gEdges) : gEdges[k].src = gEdges[k].tgt

(***************************************************************************)
(* C9. The node list of N rows is cut into exactly ceil(N/C) consecutive   *)
(* chunks in input order, every row in exactly one chunk; progress is      *)
(* written once per chunk, after that chunk's graph update, with the       *)
(* values 1, 2, ..., ceil(N/C), none above the progress maximum; 250 rows  *)
(* with C = 100 give 3 chunks.                                             *)
(***************************************************************************)
RECURSIVE Flatten(_)
Flatten(ss) == IF ss = <<>> THEN <<>> ELSE Head(ss) \o Flatten(Tail(ss))

\* k is ceil(n / c)
IsCeil(k, n, c) == k * c >= n /\ (k - 1) * c < n /\ k >= 0

C9_ChunksAndProgress ==
  /\ progressWrites = [k \in 1..Len(progressWrites) |-> k]
  /\ \A k \in 1..Len(progressWrites) : progressWrites[k] <= progressMax
  /\ (pc # "ready" /\ nodesData # <<>>) => IsCeil(progressMax, Len(nodesData), chunkSize)
  /\ Len(chunksSeen) = Len(progressWrites) + (IF pc = "progress" THEN 1 ELSE 0)
  /\ \A k \in 1..Len(chunksSeen) : chunksSeen[k] # <<>> /\ Len(chunksSeen[k]) <= chunkSize
  /\ Flatten(chunksSeen) = SubSeq(nodesData, 1, Len(Flatten(chunksSeen)))
  /\ (LoopEnded \/ pc \in {"layout", "done"}) =>
       /\ IsCeil(Len(chunksSeen), Len(nodesData), chunkSize)
       /\ Len(progressWrites) = Len(chunksSeen)
       /\ Flatten(chunksSeen) = nodesData
       /\ progressValue = (IF nodesData = <<>> THEN 0 ELSE Len(chunksSeen))
  /\ CeilDiv(250, 100) = 3

\* three rows in chunks of two: a full chunk and a partial one, two progress writes
C9_Witness ==
  /\ pc = "done"
  /\ Len(nodesData) = 3 /\ chunkSize = 2
  /\ Len(chunksSeen) = 2 /\ Len(chunksSeen[2]) = 1
  /\ progressWrites = <<1, 2>>

(***************************************************************************)
(* C10. With an empty node list the chunked builder processes no chunk,    *)
(* ends with an empty graph, and never invokes the layout engine.          *)
(***************************************************************************)
C10_EmptyInputNoLayout ==
  nodesData = <<>> =>
    /\ chunksSeen = <<>>
    /\ gNodes = <<>> /\ gEdges = <<>>
    /\ layoutCalls = 0

(***************************************************************************)
(* Vocabulary of the properties about repeated and overlapping loads       *)
(***************************************************************************)
\* no handleFileUpload call is suspended, and a load has run to its end
LoadsCompleted ==
  /\ \A k \in 1..Len(uploads) : uploads[k].pc \in {"returned", "done"}
  /\ \E k \in 1..Len(uploads) : uploads[k].pc = "done"

TypesOf(rows) == {rows[k].type : k \in 1..Len(rows)}
KeysOf(m) == {m[k].key : k \in 1..Len(m)}

\* the loads made so far did not overlap: none changed the graph between two
\* changes of another
LoadsInSequence ==
  \A p, q \in 1..Len(mutators) : mutators[p] = mutators[q] => p = q

\* what the latest load builds in an empty graph with an empty color map
LatestAlone ==
  loadAndProcessCSVFiles(lastLoad.nodes, lastLoad.edges, 1, <<>>, builderClears,
                         <<>>, <<>>)

(***************************************************************************)
(* C11. A load carries nothing over from the load before it: when the      *)
(* loads made so far have completed one after the other, the graph holds   *)
(* exactly the nodes and edges built from the latest load's input, and the *)
(* type-to-color map                                                       *)
(* holds exactly the categories of the latest load, colored from palette   *)
(* index 0 on in first-seen order.                                         *)
(***************************************************************************)
C11_NoCarryOver ==
  (LoadsCompleted /\ LoadsInSequence) =>
    /\ [k \in 1..Len(gNodes) |-> gNodes[k].item]
         = [k \in 1..Len(LatestAlone.nodes) |-> LatestAlone.nodes[k].item]
    /\ [k \in 1..Len(gEdges) |-> gEdges[k].tag]
         = [k \in 1..Len(LatestAlone.edges) |-> LatestAlone.edges[k].tag]
    /\ KeysOf(typeColors) = TypesOf(UploadUnique(lastLoad.nodes))
    /\ typeColors = LatestAlone.typeColors

(***************************************************************************)
(* C12. There is never a second legend panel, and when the loads made so   *)
(* far have completed one after the other there is exactly one panel and   *)
(* every category it lists is a category of the latest load.               *)
(***************************************************************************)
C12_OneLegendOfLatestLoad ==
  /\ legendPanels <= 1
  /\ (LoadsCompleted /\ LoadsInSequence) =>
       /\ legendPanels = 1
       /\ KeysOf(legend) \subseteq TypesOf(UploadUnique(lastLoad.nodes))

(***************************************************************************)
(* C13. The legend has exactly one entry per category of the graph's       *)
(* nodes, the entries stand in the order in which the categories are first *)
(* seen among the nodes, whatever the category strings look like, and      *)
(* deriving the legend again from the unchanged graph gives the same       *)
(* sequence.                                                               *)
(* Checked for the consolidating loader over categories "1", "2" and "X".  *)
(***************************************************************************)
NumericTypeNodeRow == [id : NodeIds, type : {"1", "2", "X"}, label : {""}]

InitUpdateNumericTypes ==
  /\ nodesData \in SeqsUpTo(NumericTypeNodeRow, MaxUpdateNodeRows)
  /\ edgesData \in SeqsUpTo(PlainEdgeRow, MaxUpdateEdgeRows)
  /\ chunkSize = 1
  /\ builderClears = FALSE
  /\ Blank
  /\ pc = "parsed"
  /\ edgeLabelsVisible = TRUE

SpecUpdateNumericTypes == InitUpdateNumericTypes /\ [][NextUpdate]_vars

ItemsOf(nodes) == [k \in 1..Len(nodes) |-> nodes[k].item]

C13_LegendInFirstSeenOrder ==
  pc = "done" =>
    /\ KeysOf(legend) = TypesOf(ItemsOf(gNodes))
    /\ \A j, k \in 1..Len(legend) : legend[j].key = legend[k].key => j = k
    /\ \A k \in 1..Len(legend) : TypeRank(ItemsOf(gNodes), legend[k].key) = k - 1
    /\ ObjectEntries(LegendOfGraph(gNodes)) = legend

(***************************************************************************)
(* C14. After a chunked load has completed, every graph node whose         *)
(* category the legend lists is drawn with the color the legend shows for  *)
(* that category.                                                          *)
(***************************************************************************)
C14_LegendShowsNodeColors ==
  pc = "done" =>
    \A e \in 1..Len(legend) : \A k \in 1..Len(gNodes) :
      gNodes[k].item.type = legend[e].key =>
        RenderedFill(gNodes[k], defaultFill) = legend[e].value

(***************************************************************************)
(* C15. A load request made while the nodes file or the edges file is      *)
(* missing raises an alert and runs no part of the pipeline: no file is    *)
(* read while the other file is missing, every request that ended for want *)
(* of a file has raised an alert, and as long as no load has started the   *)
(* graph, the color map and the legend are as they were.                   *)
(***************************************************************************)
C15_MissingFileAlert ==
  /\ \A k \in 1..Len(uploads) :
       uploads[k].pc = "reading" =>
         /\ uploads[k].kind = "nodes" => uploadedEdges.has
         /\ uploads[k].kind = "edges" => uploadedNodes.has
  /\ alerts >= loneRequests
  /\ mutators = <<>> =>
       gNodes = <<>> /\ gEdges = <<>> /\ typeColors = <<>> /\ legend = <<>>

(***************************************************************************)
(* C16. At most one load changes the graph at a time: no two calls are     *)
(* between their first and their last change of the graph at once, and no  *)
(* call changes the graph between two changes made by another call.        *)
(***************************************************************************)
C16_OneLoadAtATime ==
  /\ Cardinality({k \in 1..Len(uploads) : uploads[k].pc \in {"morph", "routing"}}) <= 1
  /\ LoadsInSequence

(***************************************************************************)
(* C17. A rejection of the edge-routing step is caught and logged: it adds *)
(* one console error, reaches no caller as a rejection and leaves the      *)
(* application state as it is. A rejection of the primary layout started   *)
(* by the apply-layout handler is not caught by the handler: it surfaces   *)
(* as a rejection of the handler and logs nothing.                         *)
(***************************************************************************)
RunsAt(where) == {k \in 1..Len(layoutRuns) : layoutRuns[k].pc = where}

LoadCompleted ==
  /\ pc = "done"
  /\ progressDisplay = "none"
  /\ Len(chunksSeen) = CeilDiv(Len(nodesData), chunkSize)
  /\ Flatten(chunksSeen) = nodesData
  /\ layoutCalls = 1
  /\ legendPanels = 1
  /\ legend = ObjectEntries(getTypeColorMap(MapValues(uniqueNodesMap)))

XYNodeRow == [id : NodeIds, type : {"X", "Y"}, label : {""}]

InitChunkXY ==
  /\ nodesData \in SeqsUpTo(XYNodeRow, MaxNodeRows)
  /\ edgesData \in SeqsUpTo(PlainEdgeRow, MaxEdgeRows)
  /\ chunkSize \in 1..(MaxNodeRows + 1)
  /\ builderClears \in BOOLEAN
  /\ Blank
  /\ pc = "ready"
  /\ edgeLabelsVisible = FALSE

SpecChunkXY == InitChunkXY /\ [][NextChunk]_vars

C19_CategoriesShownApart ==
  pc = "done" =>
    /\ \A j, k \in 1..Len(gNodes) :
         gNodes[j].item.type # gNodes[k].item.type =>
           RenderedFill(gNodes[j], defaultFill) # RenderedFill(gNodes[k], defaultFill)
    /\ \A j, k \in 1..Len(legend) :
         legend[j].key # legend[k].key => legend[j].value # legend[k].value
    /\ Len(legend) = Cardinality(TypesOf(MapValues(uniqueNodesMap)))

(***************************************************************************)
(* C20. Every populateContextMenu call leaves exactly one item in the      *)
(* context menu. When the event's item is a node, that node is selected    *)
(* afterwards (the selection is exactly that node if it was not selected   *)
(* before and is unchanged if it was) and the item is 'Zoom to node'; when *)
(* the event's item is no node, the selection is empty afterwards and the  *)
(* item is 'Fit Graph Bounds'.                                             *)
(***************************************************************************)
C20_MenuHoldsOneItem ==
  [][populated'.parity # populated.parity =>
       /\ populated'.before = selection
       /\ Len(menuItems') = 1
       /\ populated'.item \in MenuNodes =>
            /\ populated'.item \in selection'
            /\ populated'.item \notin selection => selection' = {populated'.item}
            /\ populated'.item \in selection => selection' = selection
            /\ menuItems' = <<"Zoom to node">>
       /\ populated'.item \notin MenuNodes =>
            /\ selection' = {}
            /\ menuItems' = <<"Fit Graph Bounds">>]_vars

\* the menu was opened on a node that was selected together with another node
\* and an edge, after an earlier call had filled the menu
C20_Witness ==
  /\ populated.parity = FALSE
  /\ populated.item = "n1"
  /\ populated.before = {"n1", "n2", "e1"}
  /\ selection = {"n1", "n2", "e1"}
  /\ menuItems = <<"Zoom to node">>

(***************************************************************************)
(* C21. In the apply-layout handler edge routing is started only after the *)
(* primary layout chosen by the option has completed successfully: a       *)
(* click's routing starts in the step in which its primary layout resolves *)
(* and has been applied, the engine has been started once per click and    *)
(* once more per click whose primary layout resolved, an option without a  *)
(* case runs the organic layout, and a click whose primary layout failed   *)
(* never starts routing.                                                   *)
(***************************************************************************)
RoutingStarted == RunsAt("routing") \cup RunsAt("routed") \cup RunsAt("routingFailed")

C21_RoutingAfterPrimary ==
  /\ [](/\ layoutCalls = Len(layoutRuns) + Cardinality(RoutingStarted)
        /\ \A k \in 1..Len(layoutRuns) :
             layoutRuns[k].option \notin {"hierarchic", "orthogonal", "circular"}
               => layoutRuns[k].layout = "OrganicLayout")
  /\ [][\A k \in 1..Len(layoutRuns) :
          /\ (k \in RoutingStarted' /\ k \notin RoutingStarted) =>
               /\ layoutRuns[k].pc = "primary"
               /\ arrangement' = layoutRuns[k].layout
               /\ unhandledRejections' = unhandledRejections
          /\ layoutRuns[k].pc = "primaryFailed" =>
               layoutRuns'[k].pc = "primaryFailed"]_vars

\* one click's routing has run after its circular layout, another click's
\* primary layout failed
C21_Witness ==
  /\ \E k \in RunsAt("routed") : layoutRuns[k].option = "circular"
  /\ \E k \in RunsAt("primaryFailed") : layoutRuns[k].option = "other"
  /\ layoutCalls = 3

(***************************************************************************)
(* C22. Two edge rows are consolidated into the same entry only if they    *)
(* have equal source and equal target: rows with the same consolidation    *)
(* key have the same source and the same target, also when an id contains  *)
(* '-', and every row is counted in an entry that carries the row's own    *)
(* source and target.                                                      *)
(***************************************************************************)
C22_KeyInjective ==
  pc = "done" =>
    /\ \A j, k \in 1..Len(edgesData) :
         edgeKey(edgesData[j]) = edgeKey(edgesData[k]) =>
           /\ edgesData[j].source = edgesData[k].source
           /\ edgesData[j].target = edgesData[k].target
    /\ \A j \in 1..Len(edgesData) :
         /\ MapHas(consolidatedEdges, edgeKey(edgesData[j]))
         /\ MapGet(consolidatedEdges, edgeKey(edgesData[j])).source = edgesData[j].source
         /\ MapGet(consolidatedEdges, edgeKey(edgesData[j])).target = edgesData[j].target

(***************************************************************************)
(* C23. The edge-label toggle keeps its flag and the graph in agreement,   *)
(* whatever the order of toggle clicks and loads: while edgeLabelsVisible  *)
(* is false no edge carries a label, while it is true every edge carries   *)
(* at most one label, and a click that shows the labels gives every edge   *)
(* the labels it had when they were hidden (the 'No Type' label of an edge *)
(* without edgeType included), as long as the edges are still the same.    *)
(***************************************************************************)
WithoutLabels(edges) == [k \in 1..Len(edges) |-> [edges[k] EXCEPT !.labels = <<>>]]

C23_ToggleAgreesWithGraph ==
  /\ [](\A k \in 1..Len(gEdges) :
          /\ ~edgeLabelsVisible => gEdges[k].labels = <<>>
          /\ edgeLabelsVisible => Len(gEdges[k].labels) <= 1)
  /\ [][(edgeLabelsVisible' /\ ~edgeLabelsVisible
          /\ WithoutLabels(hiddenLabels) = WithoutLabels(gEdges))
         => gEdges' = hiddenLabels]_vars

(***************************************************************************)
(* C24. Level of detail: after a zoom change to 0.7 or below no node and   *)
(* no edge carries a label, and after a zoom change to above 0.7 every     *)
(* node carries its label again, exactly once.                             *)
(***************************************************************************)
C24_LabelsFollowZoom ==
  [][zoom' # zoom =>
       /\ zoom' <= 7 =>
            /\ \A k \in 1..Len(gNodes') : gNodes'[k].labels = <<>>
            /\ \A k \in 1..Len(gEdges') : gEdges'[k].labels = <<>>
       /\ zoom' > 7 =>
            \A k \in 1..Len(gNodes') :
              gNodes'[k].labels = <<BoundLabelText(gNodes'[k].item)>>]_vars

====
